---- MODULE Spec2Model ----
(***************************************************************************)
(* Model of convert_gridtracknet.py: the export pipeline of main() as a    *)
(* sequential state machine (specification Spec), and the tensor layout of *)
(* build_wrapped_model() traced element by element (specification          *)
(* LayoutSpec).                                                            *)
(***************************************************************************)
EXTENDS Integers, Sequences, FiniteSets, TLC

VARIABLES pc, weights_exists, toolkit_names, mlmodel, spec, out_names, i,
          log, calls, warnings, error, dir_created, saved, descriptions,
          stage, frame, src, shape, idx, origin, head

pvars == <<pc, weights_exists, toolkit_names, mlmodel, spec, out_names, i,
           log, calls, warnings, error, dir_created, saved, descriptions>>
lvars == <<stage, frame, src, shape, idx, origin, head>>
vars == <<pvars, lvars>>

(***************************************************************************)
(* Bounds of the model.                                                    *)
(***************************************************************************)
MaxOutputs == 4
MaxProbe == 1

(***************************************************************************)
(* Program constants.                                                      *)
(***************************************************************************)
H == 432
W == 768
F == 5
GridRows == 48
GridCols == 27
Downsample == 16

desired_out_names == <<"conf", "x_off", "y_off">>

\* f"f{i+1}" for i in range(F)
input_names == <<"f1", "f2", "f3", "f4", "f5">>

Names == {"conf", "x_off", "y_off", "Identity", "Identity_1", "Identity_2"}

\* what the converter may report as the output names of the package:
\* between 2 and MaxOutputs names, no two of them equal
ToolkitNames ==
    {ns \in UNION {[1..n -> Names] : n \in 2..MaxOutputs} :
        \A a, b \in DOMAIN ns : ns[a] = ns[b] => a = b}

NoModel == [id |-> 0, names |-> <<>>, weights_dir |-> FALSE]

Range(s) == {s[k] : k \in DOMAIN s}

Has(e) == e \in Range(log)

\* rename_feature on a success: every output named old is now named new;
\* an old name that no output has leaves the outputs as they are
rename_feature(names, old, new) ==
    [k \in DOMAIN names |-> IF names[k] = old THEN new ELSE names[k]]

\* zip(a, b) stops at the shorter of the two lists
ZipLen(a, b) == IF Len(a) < Len(b) THEN Len(a) ELSE Len(b)

BadCount_OnlyTooFew(names) == Len(names) < 3

\* len(out_names) != 3
BadCount(names) == Len(names) # 3

NeedsRename_Always(names) == TRUE

\* out_names != desired_out_names
NeedsRename(names) == names # desired_out_names

(***************************************************************************)
(* main(): one action per statement or loop iteration.                     *)
(***************************************************************************)
PInit ==
    /\ pc = "start"
    /\ weights_exists \in BOOLEAN
    /\ toolkit_names = <<>>
    /\ mlmodel = NoModel
    /\ spec = <<>>
    /\ out_names = <<>>
    /\ i = 0
    /\ log = <<>>
    /\ calls = <<>>
    /\ warnings = <<>>
    /\ error = "none"
    /\ dir_created = FALSE
    /\ saved = <<>>
    /\ descriptions = {}

LInit0 ==
    /\ stage = "idle"
    /\ frame = 0
    /\ src = <<>>
    /\ shape = <<>>
    /\ idx = <<>>
    /\ origin = <<>>
    /\ head = 0

Init == PInit /\ LInit0

CheckWeights_NoCheck ==
    /\ pc = "start"
    /\ UNCHANGED lvars
    /\ pc' = "build"
    /\ log' = Append(log, "exists")
    /\ UNCHANGED <<weights_exists, toolkit_names, mlmodel, spec, out_names, i,
                   calls, warnings, error, dir_created, saved, descriptions>>

CheckWeights ==
    /\ pc = "start"
    /\ UNCHANGED lvars
    /\ IF weights_exists
          THEN pc' = "build" /\ error' = error
          ELSE pc' = "fatal" /\ error' = "FileNotFoundError"
    /\ log' = Append(log, "exists")
    /\ UNCHANGED <<weights_exists, toolkit_names, mlmodel, spec, out_names, i,
                   calls, warnings, dir_created, saved, descriptions>>

BuildWrapped ==
    /\ pc = "build"
    /\ UNCHANGED lvars
    /\ pc' = "load_weights"
    /\ log' = Append(log, "build")
    /\ UNCHANGED <<weights_exists, toolkit_names, mlmodel, spec, out_names, i,
                   calls, warnings, error, dir_created, saved, descriptions>>

LoadWeights ==
    /\ pc = "load_weights"
    /\ UNCHANGED lvars
    /\ pc' = "convert"
    /\ log' = Append(log, "load_weights")
    /\ UNCHANGED <<weights_exists, toolkit_names, mlmodel, spec, out_names, i,
                   calls, warnings, error, dir_created, saved, descriptions>>

Convert ==
    /\ pc = "convert"
    /\ UNCHANGED lvars
    /\ \E names \in ToolkitNames, wd \in BOOLEAN :
          /\ mlmodel' = [id |-> 1, names |-> names, weights_dir |-> wd]
          /\ toolkit_names' = names
    /\ pc' = "get_names"
    /\ log' = Append(log, "convert")
    /\ UNCHANGED <<weights_exists, spec, out_names, i,
                   calls, warnings, error, dir_created, saved, descriptions>>

ConvertRaises ==
    /\ pc = "convert"
    /\ UNCHANGED lvars
    /\ pc' = "fatal"
    /\ error' = "ConvertError"
    /\ log' = Append(log, "convert")
    /\ UNCHANGED <<weights_exists, toolkit_names, mlmodel, spec, out_names, i,
                   calls, warnings, dir_created, saved, descriptions>>

ReadNames ==
    /\ pc = "get_names"
    /\ UNCHANGED lvars
    /\ spec' = mlmodel.names
    /\ out_names' = mlmodel.names
    /\ IF BadCount(mlmodel.names)
          THEN pc' = "fatal" /\ error' = "RuntimeError"
          ELSE pc' = "check_inplace" /\ error' = error
    /\ log' = Append(log, "get_names")
    /\ UNCHANGED <<weights_exists, toolkit_names, mlmodel, i,
                   calls, warnings, dir_created, saved, descriptions>>

CheckInPlace ==
    /\ pc = "check_inplace"
    /\ UNCHANGED lvars
    /\ IF NeedsRename(out_names)
          THEN pc' = "inplace" /\ i' = 1
          ELSE pc' = "check_descriptor" /\ i' = i
    /\ UNCHANGED <<weights_exists, toolkit_names, mlmodel, spec, out_names,
                   log, calls, warnings, error, dir_created, saved,
                   descriptions>>

InPlaceSkip ==
    /\ pc = "inplace"
    /\ UNCHANGED lvars
    /\ i <= ZipLen(out_names, desired_out_names)
    /\ out_names[i] = desired_out_names[i]
    /\ i' = i + 1
    /\ UNCHANGED <<pc, weights_exists, toolkit_names, mlmodel, spec,
                   out_names, log, calls, warnings, error, dir_created, saved,
                   descriptions>>

InPlaceRename ==
    /\ pc = "inplace"
    /\ UNCHANGED lvars
    /\ i <= ZipLen(out_names, desired_out_names)
    /\ out_names[i] # desired_out_names[i]
    /\ calls' = Append(calls, [target |-> "mlmodel", pos |-> i,
                               old |-> out_names[i],
                               new |-> desired_out_names[i],
                               had |-> mlmodel.names])
    /\ mlmodel' = [mlmodel EXCEPT !.names =
                      rename_feature(@, out_names[i], desired_out_names[i])]
    /\ i' = i + 1
    /\ log' = Append(log, "rename_mlmodel")
    /\ UNCHANGED <<pc, weights_exists, toolkit_names, spec, out_names,
                   warnings, error, dir_created, saved, descriptions>>

InPlaceThrow ==
    /\ pc = "inplace"
    /\ UNCHANGED lvars
    /\ i <= ZipLen(out_names, desired_out_names)
    /\ out_names[i] # desired_out_names[i]
    /\ calls' = Append(calls, [target |-> "mlmodel", pos |-> i,
                               old |-> out_names[i],
                               new |-> desired_out_names[i],
                               had |-> mlmodel.names])
    /\ warnings' = Append(warnings, [strategy |-> 1, cause |-> "rename"])
    /\ pc' = "check_descriptor"
    /\ log' = Append(log, "warn_mlmodel")
    /\ UNCHANGED <<weights_exists, toolkit_names, mlmodel, spec, out_names, i,
                   error, dir_created, saved, descriptions>>

InPlaceRefresh ==
    /\ pc = "inplace"
    /\ UNCHANGED lvars
    /\ i > ZipLen(out_names, desired_out_names)
    /\ spec' = mlmodel.names
    /\ out_names' = mlmodel.names
    /\ pc' = "check_descriptor"
    /\ UNCHANGED <<weights_exists, toolkit_names, mlmodel, i,
                   log, calls, warnings, error, dir_created, saved,
                   descriptions>>

CheckDescriptor ==
    /\ pc = "check_descriptor"
    /\ UNCHANGED lvars
    /\ IF NeedsRename(out_names)
          THEN pc' = "descriptor" /\ i' = 1 /\ spec' = mlmodel.names
          ELSE pc' = "describe" /\ i' = i /\ spec' = spec
    /\ UNCHANGED <<weights_exists, toolkit_names, mlmodel, out_names,
                   log, calls, warnings, error, dir_created, saved,
                   descriptions>>

DescriptorSkip ==
    /\ pc = "descriptor"
    /\ UNCHANGED lvars
    /\ i <= ZipLen(out_names, desired_out_names)
    /\ out_names[i] = desired_out_names[i]
    /\ i' = i + 1
    /\ UNCHANGED <<pc, weights_exists, toolkit_names, mlmodel, spec,
                   out_names, log, calls, warnings, error, dir_created, saved,
                   descriptions>>

DescriptorRename ==
    /\ pc = "descriptor"
    /\ UNCHANGED lvars
    /\ i <= ZipLen(out_names, desired_out_names)
    /\ out_names[i] # desired_out_names[i]
    /\ calls' = Append(calls, [target |-> "spec", pos |-> i,
                               old |-> out_names[i],
                               new |-> desired_out_names[i],
                               had |-> spec])
    /\ spec' = rename_feature(spec, out_names[i], desired_out_names[i])
    /\ i' = i + 1
    /\ log' = Append(log, "rename_spec")
    /\ UNCHANGED <<pc, weights_exists, toolkit_names, mlmodel, out_names,
                   warnings, error, dir_created, saved, descriptions>>

DescriptorThrow_Fatal ==
    /\ pc = "descriptor"
    /\ UNCHANGED lvars
    /\ i <= ZipLen(out_names, desired_out_names)
    /\ out_names[i] # desired_out_names[i]
    /\ calls' = Append(calls, [target |-> "spec", pos |-> i,
                               old |-> out_names[i],
                               new |-> desired_out_names[i],
                               had |-> spec])
    /\ warnings' = Append(warnings, [strategy |-> 2, cause |-> "rename"])
    /\ pc' = "fatal"
    /\ error' = "Exception"
    /\ log' = Append(log, "warn_spec")
    /\ UNCHANGED <<weights_exists, toolkit_names, mlmodel, spec, out_names, i,
                   dir_created, saved, descriptions>>

DescriptorThrow ==
    /\ pc = "descriptor"
    /\ UNCHANGED lvars
    /\ i <= ZipLen(out_names, desired_out_names)
    /\ out_names[i] # desired_out_names[i]
    /\ calls' = Append(calls, [target |-> "spec", pos |-> i,
                               old |-> out_names[i],
                               new |-> desired_out_names[i],
                               had |-> spec])
    /\ warnings' = Append(warnings, [strategy |-> 2, cause |-> "rename"])
    /\ pc' = "describe"
    /\ log' = Append(log, "warn_spec")
    /\ UNCHANGED <<weights_exists, toolkit_names, mlmodel, spec, out_names, i,
                   error, dir_created, saved, descriptions>>

NoWeightsDir ==
    /\ pc = "descriptor"
    /\ UNCHANGED lvars
    /\ i > ZipLen(out_names, desired_out_names)
    /\ ~mlmodel.weights_dir
    /\ warnings' = Append(warnings, [strategy |-> 2, cause |-> "weights_dir"])
    /\ pc' = "describe"
    /\ log' = Append(log, "warn_spec")
    /\ UNCHANGED <<weights_exists, toolkit_names, mlmodel, spec, out_names, i,
                   calls, error, dir_created, saved, descriptions>>

Rebuild_SavesEarly ==
    /\ pc = "descriptor"
    /\ UNCHANGED lvars
    /\ i > ZipLen(out_names, desired_out_names)
    /\ mlmodel.weights_dir
    /\ mlmodel' = [id |-> mlmodel.id + 1, names |-> spec, weights_dir |-> TRUE]
    /\ out_names' = spec
    /\ saved' = Append(saved, mlmodel')
    /\ dir_created' = TRUE
    /\ pc' = "describe"
    /\ log' = Append(log, "rebuild") \o <<"mkdir", "save">>
    /\ UNCHANGED <<weights_exists, toolkit_names, spec, i,
                   calls, warnings, error, descriptions>>

Rebuild ==
    /\ pc = "descriptor"
    /\ UNCHANGED lvars
    /\ i > ZipLen(out_names, desired_out_names)
    /\ mlmodel.weights_dir
    /\ mlmodel' = [id |-> mlmodel.id + 1, names |-> spec, weights_dir |-> TRUE]
    /\ out_names' = spec
    /\ pc' = "describe"
    /\ log' = Append(log, "rebuild")
    /\ UNCHANGED <<weights_exists, toolkit_names, spec, i,
                   calls, warnings, error, dir_created, saved, descriptions>>

Describe ==
    /\ pc = "describe"
    /\ UNCHANGED lvars
    /\ descriptions' = {<<"model", "short_description">>}
                         \cup {<<"in", input_names[k]>> : k \in 1..F}
                         \cup {<<"out", desired_out_names[k]>> : k \in 1..3}
    /\ pc' = "mkdir"
    /\ log' = Append(log, "describe")
    /\ UNCHANGED <<weights_exists, toolkit_names, mlmodel, spec, out_names, i,
                   calls, warnings, error, dir_created, saved>>

Mkdir ==
    /\ pc = "mkdir"
    /\ UNCHANGED lvars
    /\ dir_created' = TRUE
    /\ pc' = "save"
    /\ log' = Append(log, "mkdir")
    /\ UNCHANGED <<weights_exists, toolkit_names, mlmodel, spec, out_names, i,
                   calls, warnings, error, saved, descriptions>>

Save ==
    /\ pc = "save"
    /\ UNCHANGED lvars
    /\ saved' = Append(saved, mlmodel)
    /\ pc' = "done"
    /\ log' = Append(log, "save")
    /\ UNCHANGED <<weights_exists, toolkit_names, mlmodel, spec, out_names, i,
                   calls, warnings, error, dir_created, descriptions>>

PNext ==
    \/ CheckWeights
    \/ BuildWrapped
    \/ LoadWeights
    \/ Convert
    \/ ConvertRaises
    \/ ReadNames
    \/ CheckInPlace
    \/ InPlaceSkip
    \/ InPlaceRename
    \/ InPlaceThrow
    \/ InPlaceRefresh
    \/ CheckDescriptor
    \/ DescriptorSkip
    \/ DescriptorRename
    \/ DescriptorThrow
    \/ NoWeightsDir
    \/ Rebuild
    \/ Describe
    \/ Mkdir
    \/ Save

Next == PNext

Spec == Init /\ [][Next]_vars

\* the finalizer's statements are plain sequential code: once reached, they run
FairSpec == Spec /\ WF_vars(Describe) /\ WF_vars(Mkdir) /\ WF_vars(Save)

(***************************************************************************)
(* Properties of main().                                                   *)
(***************************************************************************)
ResolverEvents == {"get_names", "rename_mlmodel", "warn_mlmodel",
                   "rename_spec", "warn_spec", "rebuild"}

Finalizing == pc \in {"describe", "mkdir", "save", "done"}

RenameThrew(s) ==
    \E k \in DOMAIN warnings : warnings[k] = [strategy |-> s, cause |-> "rename"]

NoRenameThrew == \A k \in DOMAIN warnings : warnings[k].cause # "rename"

WeightsDirMissing == \E k \in DOMAIN warnings : warnings[k].cause = "weights_dir"

OutputDescriptions == {<<"out", desired_out_names[k]>> : k \in 1..3}

\* C1: whatever three names the converter reports, if no rename call throws,
\* the resolver hands the finalizer a package whose output names are exactly
\* conf, x_off, y_off in that order.
C1_ResolverEndsWithDesiredNames ==
    (Finalizing /\ NoRenameThrew) => mlmodel.names = desired_out_names

\* C2: when the converter already reports conf, x_off, y_off in order, no
\* rename call of either strategy is made, the package is not reconstructed,
\* and the package saved is the one the conversion returned.
C2_CorrectNamesUntouched ==
    toolkit_names = desired_out_names =>
        /\ calls = <<>>
        /\ ~Has("rename_mlmodel") /\ ~Has("rename_spec") /\ ~Has("rebuild")
        /\ mlmodel.id = 1
        /\ \A k \in DOMAIN saved : saved[k].id = 1
        /\ (pc = "done" => Len(saved) = 1)

C2_Witness ==
    toolkit_names = desired_out_names /\ pc = "done" /\ Len(saved) = 1

\* C3: with the weight file missing the run raises FileNotFoundError at the
\* existence check; the networks are never built, the converter is never
\* called, the directory is never created and nothing is written.
C3_MissingWeightsFailsFirst ==
    ~weights_exists =>
        /\ Range(log) \subseteq {"exists"}
        /\ mlmodel = NoModel
        /\ ~dir_created
        /\ saved = <<>>
        /\ (pc # "start" => pc = "fatal" /\ error = "FileNotFoundError")

C3_Witness ==
    ~weights_exists /\ pc = "fatal" /\ error = "FileNotFoundError"

\* C4: a completed run writes the package exactly once, as its last step and
\* after every event of the resolver; a run that ended fatally wrote nothing
\* and created no directory.
C4_SavedOnceAtTheEnd ==
    /\ Len(saved) <= 1
    /\ (saved # <<>> => pc = "done")
    /\ (pc = "done" => Len(saved) = 1 /\ log[Len(log)] = "save")
    /\ \A j, k \in DOMAIN log :
          (log[j] = "save" /\ log[k] \in ResolverEvents) => k < j
    /\ Cardinality({j \in DOMAIN log : log[j] = "save"}) = Len(saved)
    /\ (pc = "fatal" =>
          saved = <<>> /\ ~dir_created /\ ~Has("mkdir") /\ ~Has("save"))

C4_Witness ==
    pc = "done" /\ Has("warn_mlmodel") /\ Has("rename_spec") /\ Has("rebuild")

\* C5: when the rename-on-descriptor strategy finds no weights directory the
\* run is fatal: the finalizer is not entered and nothing is saved.
C5_NoWeightsDirIsFatal ==
    WeightsDirMissing =>
        /\ ~Finalizing
        /\ descriptions = {}
        /\ saved = <<>>

\* C6: when the converter reports a number of outputs other than 3 the run
\* raises RuntimeError right after reading the names: no rename call, no
\* metadata, nothing saved.
C6_WrongCountIsFatal ==
    (mlmodel.id # 0 /\ Len(toolkit_names) # 3) =>
        /\ pc \in {"get_names", "fatal"}
        /\ (pc = "fatal" => error = "RuntimeError" /\ log[Len(log)] = "get_names")
        /\ calls = <<>>
        /\ descriptions = {}
        /\ ~dir_created
        /\ saved = <<>>

C6_Witness ==
    pc = "fatal" /\ error = "RuntimeError" /\ Len(toolkit_names) # 3

\* C7: when both strategies throw in a rename call, each throw is caught and
\* logged as one warning, no error is raised, and the run goes on to attach
\* the descriptions and save the package although its output names are not
\* conf, x_off, y_off.
C7_SoftFailureInv ==
    (RenameThrew(1) /\ RenameThrew(2)) =>
        /\ error = "none"
        /\ Finalizing
        /\ Len(warnings) = 2
        /\ mlmodel.names # desired_out_names
        /\ (pc \in {"mkdir", "save", "done"} =>
              OutputDescriptions \subseteq descriptions)
        /\ (pc = "done" => saved = <<mlmodel>>)

C7_SoftFailureStillSaves ==
    /\ []C7_SoftFailureInv
    /\ (RenameThrew(1) /\ RenameThrew(2)) ~> (pc = "done" /\ saved = <<mlmodel>>)

C7_Witness ==
    /\ RenameThrew(1) /\ RenameThrew(2)
    /\ pc = "done"
    /\ mlmodel.names # desired_out_names

\* C10: every rename call of the rename-on-descriptor strategy passes, as the
\* old name, a name that an output of the descriptor has at that moment.
C10_DescriptorRenamesCurrentNames ==
    \A k \in DOMAIN calls :
        calls[k].target = "spec" => calls[k].old \in Range(calls[k].had)

(***************************************************************************)
(* build_wrapped_model(): the layers of the wrapper, applied to the index  *)
(* of one traced element.  Tensors are row-major; every index and shape    *)
(* carries the batch axis first.                                           *)
(***************************************************************************)
\* number of elements of a tensor of shape shp
RECURSIVE Size(_)
Size(shp) == IF shp = <<>> THEN 1 ELSE Head(shp) * Size(Tail(shp))

\* row-major offset of the element at index ix in a tensor of shape shp
RECURSIVE FlatIndex(_, _)
FlatIndex(ix, shp) ==
    IF ix = <<>> THEN 0
    ELSE ix[1] * Size(Tail(shp)) + FlatIndex(Tail(ix), Tail(shp))

\* index of the element at row-major offset n in a tensor of shape shp
RECURSIVE Unflatten(_, _)
Unflatten(n, shp) ==
    IF shp = <<>> THEN <<>>
    ELSE <<n \div Size(Tail(shp))>> \o Unflatten(n % Size(Tail(shp)), Tail(shp))

\* tf.transpose(t, perm): axis k of the result is axis perm[k] of t
Transpose(t, perm) == [k \in 1..Len(perm) |-> t[perm[k] + 1]]

\* keras Permute(dims): dims counts from 1 and leaves the batch axis out
Permute(t, dims) == <<t[1]>> \o [k \in 1..Len(dims) |-> t[dims[k] + 1]]

\* keras Reshape(target): same row-major order, batch axis kept
Reshape(ix, shp, target) ==
    <<ix[1]>> \o Unflatten(FlatIndex(Tail(ix), Tail(shp)), target)

\* the core network: (3 x frames, H, W) -> (3 x frames, H/16, W/16)
core_output_shape(shp) ==
    <<shp[1], shp[2], shp[3] \div Downsample, shp[4] \div Downsample>>

IndexSet(shp) ==
    {<<0, a, b, c>> : a \in 0..(shp[2] - 1), b \in 0..(shp[3] - 1),
                      c \in 0..(shp[4] - 1)}

Probes == {<<0, h, w, c>> : h \in 0..MaxProbe, w \in 0..MaxProbe, c \in 0..2}

LayoutInit ==
    /\ pc = "build"
    /\ weights_exists = TRUE
    /\ toolkit_names = <<>>
    /\ mlmodel = NoModel
    /\ spec = <<>>
    /\ out_names = <<>>
    /\ i = 0
    /\ log = <<"exists">>
    /\ calls = <<>>
    /\ warnings = <<>>
    /\ error = "none"
    /\ dir_created = FALSE
    /\ saved = <<>>
    /\ descriptions = {}
    /\ stage = "f_in"
    /\ frame \in 1..F
    /\ shape = <<1, H, W, 3>>
    /\ idx \in Probes
    /\ src = idx
    /\ origin = <<>>
    /\ head = 0

to_nchw ==
    /\ stage = "f_in"
    /\ idx' = Transpose(idx, <<0, 3, 1, 2>>)
    /\ shape' = Transpose(shape, <<0, 3, 1, 2>>)
    /\ stage' = "to_nchw"
    /\ UNCHANGED <<frame, src, origin, head>>
    /\ UNCHANGED pvars

stack_5xRGB ==
    /\ stage = "to_nchw"
    /\ idx' = [idx EXCEPT ![2] = (frame - 1) * shape[2] + @]
    /\ shape' = [shape EXCEPT ![2] = F * @]
    /\ stage' = "stack_5xRGB"
    /\ UNCHANGED <<frame, src, origin, head>>
    /\ UNCHANGED pvars

core ==
    /\ stage = "stack_5xRGB"
    /\ shape' = core_output_shape(shape)
    /\ idx' \in IndexSet(shape')
    /\ origin' = idx'
    /\ frame' = 0
    /\ src' = <<>>
    /\ stage' = "core"
    /\ UNCHANGED head
    /\ UNCHANGED pvars

to_HW_C ==
    /\ stage = "core"
    /\ idx' = Permute(idx, <<2, 3, 1>>)
    /\ shape' = Permute(shape, <<2, 3, 1>>)
    /\ stage' = "to_HW_C"
    /\ UNCHANGED <<frame, src, origin, head>>
    /\ UNCHANGED pvars

to_HW_F3 ==
    /\ stage = "to_HW_C"
    /\ IF Size(Tail(shape)) = Size(<<GridRows, GridCols, F, 3>>)
          THEN /\ idx' = Reshape(idx, shape, <<GridRows, GridCols, F, 3>>)
               /\ shape' = <<shape[1], GridRows, GridCols, F, 3>>
               /\ stage' = "to_HW_F3"
          ELSE /\ stage' = "reshape_error"
               /\ UNCHANGED <<idx, shape>>
    /\ UNCHANGED <<frame, src, origin, head>>
    /\ UNCHANGED pvars

to_F_HW_C ==
    /\ stage = "to_HW_F3"
    /\ idx' = Permute(idx, <<3, 1, 2, 4>>)
    /\ shape' = Permute(shape, <<3, 1, 2, 4>>)
    /\ stage' = "to_F_HW_C"
    /\ UNCHANGED <<frame, src, origin, head>>
    /\ UNCHANGED pvars

\* conf = t[..., 0], x_off = t[..., 1], y_off = t[..., 2]
heads ==
    /\ stage = "to_F_HW_C"
    /\ head' = idx[5]
    /\ idx' = SubSeq(idx, 1, 4)
    /\ shape' = SubSeq(shape, 1, 4)
    /\ stage' = "heads"
    /\ UNCHANGED <<frame, src, origin>>
    /\ UNCHANGED pvars

LayoutNext ==
    \/ to_nchw
    \/ stack_5xRGB
    \/ core
    \/ to_HW_C
    \/ to_HW_F3
    \/ to_F_HW_C
    \/ heads

LayoutSpec == LayoutInit /\ [][LayoutNext]_vars

(***************************************************************************)
(* Properties of build_wrapped_model().                                    *)
(***************************************************************************)
\* C8: channel c of input f_k is channel 3(k-1)+c of the stacked tensor, at
\* the same pixel; and the element of head h at frame f and grid cell (r, c)
\* is the element of the core output at channel 3f+h and the same cell.
C8_FrameAndHeadPreserved ==
    /\ stage = "stack_5xRGB" =>
          idx = <<src[1], 3 * (frame - 1) + src[4], src[2], src[3]>>
    /\ stage = "heads" =>
          origin = <<idx[1], 3 * idx[2] + head, idx[3], idx[4]>>

\* C9: the reshape only splits the channel axis: the element at cell (r, c)
\* of the core output is at cell (r, c) after the reshape and in its head,
\* and each head has shape (5, 48, 27).
C9_GridCellPreserved ==
    /\ stage = "to_HW_F3" => (idx[2] = origin[3] /\ idx[3] = origin[4])
    /\ stage = "heads" =>
          /\ shape = <<1, F, GridRows, GridCols>>
          /\ idx[3] = origin[3]
          /\ idx[4] = origin[4]

====
